---- MODULE Spec2Model ----
(***************************************************************************)
(* Model of the termux-language-server session object                      *)
(* (src/src/termux_language_server/server.py) and of the filetype          *)
(* classifier (src/src/termux_language_server/utils.py).                   *)
(*                                                                         *)
(* Strings are sequences of one-character strings, so that prefix,         *)
(* suffix, substring and column arithmetic are computed, not assumed.      *)
(* A document source is the sequence of its lines (str.splitlines()).      *)
(***************************************************************************)
EXTENDS Integers, Sequences, FiniteSets, TLC

(***************************************************************************)
(* Bounds of the model.                                                    *)
(***************************************************************************)
\* longest line enumerated for the cursor-word computation
MaxLineLen == 4
\* most declarations in a document enumerated for format
MaxDecls == 2
\* most values in one declaration's value list
MaxVals == 2
\* largest line number and column of a point query
MaxPosLine == 2
MaxPosCol == 1

(***************************************************************************)
(* String helpers (Python str operations).                                 *)
(***************************************************************************)
Range(s) == {s[i] : i \in DOMAIN s}

\* s[a:b] with 0-based, end-exclusive Python slice semantics (clamped)
Slice(s, a, b) ==
    LET lo == IF a < 0 THEN 0 ELSE a
        hi == IF b > Len(s) THEN Len(s) ELSE b
    IN  IF hi <= lo THEN <<>> ELSE SubSeq(s, lo + 1, hi)

\* str.startswith
StartsWith(s, p) == Len(p) <= Len(s) /\ SubSeq(s, 1, Len(p)) = p

\* str.endswith
EndsWith(s, p) == Len(p) <= Len(s) /\ SubSeq(s, Len(s) - Len(p) + 1, Len(s)) = p

\* `p in s` for strings: p occurs as a contiguous substring of s
Contains(s, p) ==
    \E i \in 0..(Len(s) - Len(p)) : SubSeq(s, i + 1, i + Len(p)) = p

\* index (1-based) of the last occurrence of character c in s, 0 when absent
LastIndexOf(s, c) ==
    IF \E i \in DOMAIN s : s[i] = c
    THEN CHOOSE i \in DOMAIN s : s[i] = c /\ \A j \in DOMAIN s : s[j] = c => j <= i
    ELSE 0

\* the part of s after the last occurrence of c (all of s when c is absent)
AfterLast(s, c) == SubSeq(s, LastIndexOf(s, c) + 1, Len(s))

\* characters matched by the regular expression class \w
Letters == {"A","B","C","D","E","F","G","H","I","J","K","L","M","N","O","P","Q",
            "R","S","T","U","V","W","X","Y","Z",
            "a","b","c","d","e","f","g","h","i","j","k","l","m","n","o","p","q",
            "r","s","t","u","v","w","x","y","z"}
Digits == {"0","1","2","3","4","5","6","7","8","9"}
WordChars == Letters \cup Digits \cup {"_"}

\* code-point order of the lower-case letters used in value tokens
CharOrder == <<"a","b","c","d","e">>
Ord(c) == CHOOSE i \in DOMAIN CharOrder : CharOrder[i] = c

\* Python's str `<=` (lexicographic by code point)
RECURSIVE LexLeq(_, _)
LexLeq(s, t) ==
    IF s = <<>> THEN TRUE
    ELSE IF t = <<>> THEN FALSE
    ELSE IF s[1] = t[1] THEN LexLeq(Tail(s), Tail(t))
    ELSE Ord(s[1]) < Ord(t[1])

(***************************************************************************)
(* Filetypes and get_filetype.                                             *)
(***************************************************************************)
BUILD_SH      == <<"b","u","i","l","d",".","s","h">>
SUBPACKAGE_SH == <<"s","u","b","p","a","c","k","a","g","e",".","s","h">>
DOT_SUBPACKAGE_SH == <<".">> \o SUBPACKAGE_SH
INSTALL       == <<"i","n","s","t","a","l","l">>
PKGBUILD      == <<"P","K","G","B","U","I","L","D">>
EBUILD        == <<"e","b","u","i","l","d">>
ECLASS        == <<"e","c","l","a","s","s">>
MAKE_CONF     == <<"m","a","k","e",".","c","o","n","f">>
COLOR_MAP     == <<"c","o","l","o","r",".","m","a","p">>
NoFiletype    == <<>>

FILETYPES == {BUILD_SH, SUBPACKAGE_SH, INSTALL, PKGBUILD, EBUILD, MAKE_CONF, COLOR_MAP}

get_filetype(uri) ==
    LET basename == AfterLast(uri, "/")
        ext      == AfterLast(uri, ".")
    IN  IF basename = BUILD_SH THEN BUILD_SH
        ELSE IF EndsWith(basename, DOT_SUBPACKAGE_SH) THEN SUBPACKAGE_SH
        ELSE IF ext = INSTALL THEN INSTALL
        ELSE IF basename = PKGBUILD THEN PKGBUILD
        ELSE IF ext \in {EBUILD, ECLASS} THEN EBUILD
        ELSE IF basename = MAKE_CONF THEN MAKE_CONF
        ELSE IF basename = COLOR_MAP THEN COLOR_MAP
        ELSE NoFiletype

(***************************************************************************)
(* _cursor_word: re.finditer(r"\w+", line) and the cursor test.            *)
(***************************************************************************)
\* the matches of \w+ in line: maximal runs of word characters, as
\* [start, end) pairs of 0-based columns, in left-to-right order
IsRunStart(line, i) ==
    /\ line[i] \in WordChars
    /\ (i = 1 \/ line[i - 1] \notin WordChars)
RunEnd(line, i) ==
    CHOOSE e \in i..Len(line) :
        /\ \A k \in i..e : line[k] \in WordChars
        /\ (e = Len(line) \/ line[e + 1] \notin WordChars)
RECURSIVE MatchesFrom(_, _)
MatchesFrom(line, i) ==
    IF i > Len(line) THEN <<>>
    ELSE IF IsRunStart(line, i)
         THEN <<[start |-> i - 1, end |-> RunEnd(line, i)]>>
                 \o MatchesFrom(line, RunEnd(line, i) + 1)
         ELSE MatchesFrom(line, i + 1)
finditer(line) == MatchesFrom(line, 1)

\* the first match m with m.start() <= character <= m.end(), as a sequence
\* of zero or one matches
RECURSIVE FirstTouching(_, _)
FirstTouching(ms, character) ==
    IF ms = <<>> THEN <<>>
    ELSE IF ms[1].start <= character /\ character <= ms[1].end THEN <<ms[1]>>
    ELSE FirstTouching(Tail(ms), character)

\* _cursor_word that takes the whole match whatever include_all says
cursor_word_include_all(line, lineno, character, include_all) ==
    LET hit == FirstTouching(finditer(line), character)
    IN  IF hit # <<>>
        THEN [text  |-> Slice(line, hit[1].start, hit[1].end),
              line  |-> lineno, start |-> hit[1].start, end |-> hit[1].end]
        ELSE [text |-> <<>>, line |-> lineno, start |-> 0, end |-> 0]

cursor_word(line, lineno, character, include_all) ==
    LET hit == FirstTouching(finditer(line), character)
        end == IF include_all THEN hit[1].end ELSE character
    IN  IF hit # <<>>
        THEN [text  |-> Slice(line, hit[1].start, end),
              line  |-> lineno, start |-> hit[1].start, end |-> end]
        ELSE [text |-> <<>>, line |-> lineno, start |-> 0, end |-> 0]

(***************************************************************************)
(* Completion items: the list comprehension of completions().              *)
(* A schema (self.document) is a dict; it is modelled as the sequence of   *)
(* its entries in iteration order, with distinct names.                    *)
(***************************************************************************)
\* str.isupper(): at least one cased character and no lower-case one
IsUpper(s) ==
    /\ \E i \in DOMAIN s : s[i] \in Letters
    /\ \A i \in DOMAIN s : s[i] \notin {"a","b","c","d","e","f","g","h","i","j","k",
                                        "l","m","n","o","p","q","r","s","t","u","v",
                                        "w","x","y","z"}

item_of(e) ==
    [label |-> e.name,
     kind  |-> IF IsUpper(e.name) THEN "Variable" ELSE "Function",
     documentation |-> e.doc,
     insert_text |-> e.name]

RECURSIVE completion_items(_, _, _)
completion_items(schema, token, filetype) ==
    IF schema = <<>> THEN <<>>
    ELSE (IF StartsWith(schema[1].name, token) /\ Contains(filetype, schema[1].tag)
          THEN <<item_of(schema[1])>> ELSE <<>>)
         \o completion_items(Tail(schema), token, filetype)

(***************************************************************************)
(* The parser: one declaration per line, `KEYWORD=value value ...`.        *)
(* Every token carries its source range (line, [start, end) columns).      *)
(***************************************************************************)
FirstIndexOf(s, c) ==
    IF \E i \in DOMAIN s : s[i] = c
    THEN CHOOSE i \in DOMAIN s : s[i] = c /\ \A j \in DOMAIN s : s[j] = c => i <= j
    ELSE 0

Token(line, n, a, b) == [text |-> Slice(line, a, b), line |-> n, start |-> a, end |-> b]

\* end (1-based, inclusive) of the run of non-space characters starting at i
ValueEnd(line, i) ==
    CHOOSE e \in i..Len(line) :
        /\ \A k \in i..e : line[k] # " "
        /\ (e = Len(line) \/ line[e + 1] = " ")
RECURSIVE ValueTokens(_, _, _)
ValueTokens(line, n, i) ==
    IF i > Len(line) THEN <<>>
    ELSE IF line[i] = " " THEN ValueTokens(line, n, i + 1)
    ELSE <<Token(line, n, i - 1, ValueEnd(line, i))>>
             \o ValueTokens(line, n, ValueEnd(line, i) + 1)

parse_line(line, n) ==
    LET eq == FirstIndexOf(line, "=")
    IN  IF eq = 0
        THEN [line |-> n, text |-> line, kw |-> <<>>, vals |-> <<>>]
        ELSE [line |-> n, text |-> line,
              kw   |-> <<Token(line, n, 0, eq - 1)>>,
              vals |-> ValueTokens(line, n, eq + 1)]

\* parse(source): the tree of a document, one declaration node per line
\* (lines are numbered from 0)
parse(source) == [i \in DOMAIN source |-> parse_line(source[i], i - 1)]

(***************************************************************************)
(* Sorting primitives of the unsorted finders.                             *)
(***************************************************************************)
Rank(keywords, text) == CHOOSE i \in DOMAIN keywords : keywords[i] = text

\* stable insertion of declaration d into a rank-sorted sequence
RECURSIVE InsertDecl(_, _, _)
InsertDecl(keywords, d, sorted) ==
    IF sorted = <<>> THEN <<d>>
    ELSE IF Rank(keywords, sorted[1].kw[1].text) <= Rank(keywords, d.kw[1].text)
         THEN <<sorted[1]>> \o InsertDecl(keywords, d, Tail(sorted))
         ELSE <<d>> \o sorted
RECURSIVE SortDecls(_, _)
SortDecls(keywords, ds) ==
    IF ds = <<>> THEN <<>>
    ELSE InsertDecl(keywords, ds[Len(ds)], SortDecls(keywords, SubSeq(ds, 1, Len(ds) - 1)))

\* stable insertion of a value text into a lexicographically sorted sequence
RECURSIVE InsertValue(_, _)
InsertValue(v, sorted) ==
    IF sorted = <<>> THEN <<v>>
    ELSE IF LexLeq(sorted[1], v)
         THEN <<sorted[1]>> \o InsertValue(v, Tail(sorted))
         ELSE <<v>> \o sorted
RECURSIVE SortValues(_)
SortValues(vs) ==
    IF vs = <<>> THEN <<>>
    ELSE InsertValue(vs[Len(vs)], SortValues(SubSeq(vs, 1, Len(vs) - 1)))

RECURSIVE JoinSpace(_)
JoinSpace(vs) ==
    IF vs = <<>> THEN <<>>
    ELSE IF Len(vs) = 1 THEN vs[1]
    ELSE vs[1] \o <<" ">> \o JoinSpace(Tail(vs))

RECURSIVE SelectDecls(_, _)
SelectDecls(tree, keep) ==
    IF tree = <<>> THEN <<>>
    ELSE (IF tree[1].kw # <<>> /\ tree[1].kw[1].text \in keep THEN <<tree[1]>> ELSE <<>>)
         \o SelectDecls(Tail(tree), keep)

(***************************************************************************)
(* UnsortedKeywordFinder and UnsortedCSVFinder in edit mode.               *)
(***************************************************************************)
\* one edit per keyword declaration whose slot holds another declaration's
\* text once the declarations are put in canonical order
UnsortedKeywordFinder_edits(keywords, tree) ==
    LET unis   == SelectDecls(tree, Range(keywords))
        sorted == SortDecls(keywords, unis)
        Edit(k) == IF sorted[k].text = unis[k].text THEN <<>>
                   ELSE <<[line |-> unis[k].line, start |-> 0,
                           end |-> Len(unis[k].text), new_text |-> sorted[k].text]>>
        RECURSIVE Collect(_)
        Collect(k) == IF k > Len(unis) THEN <<>> ELSE Edit(k) \o Collect(k + 1)
    IN  Collect(1)

\* one edit per value list that is not in lexicographic order
UnsortedCSVFinder_edits(csvs, tree) ==
    LET unis == SelectDecls(tree, csvs)
        Texts(d) == [i \in DOMAIN d.vals |-> d.vals[i].text]
        Edit(d) == IF d.vals = <<>> \/ SortValues(Texts(d)) = Texts(d) THEN <<>>
                   ELSE <<[line |-> d.line, start |-> d.vals[1].start,
                           end |-> d.vals[Len(d.vals)].end,
                           new_text |-> JoinSpace(SortValues(Texts(d)))]>>
        RECURSIVE Collect(_)
        Collect(k) == IF k > Len(unis) THEN <<>> ELSE Edit(unis[k]) \o Collect(k + 1)
    IN  Collect(1)

\* get_text_edits(finders, uri, tree): the finders' edits, concatenated
get_text_edits(keywords, csvs, tree) ==
    UnsortedKeywordFinder_edits(keywords, tree) \o UnsortedCSVFinder_edits(csvs, tree)

\* the format handler's edits once the rule sets and the tree are at hand:
\* both finders run on the same tree
format_edits(keywords, csvs, tree) == get_text_edits(keywords, csvs, tree)

\* two edits share a source offset
Overlap(e1, e2) == e1.line = e2.line /\ e1.start < e2.end /\ e2.start < e1.end

PairwiseDisjoint(edits) ==
    \A i, j \in DOMAIN edits : i # j => ~Overlap(edits[i], edits[j])

(***************************************************************************)
(* The client applying a batch of edits to a document.                     *)
(***************************************************************************)
ApplyOne(line, e) == Slice(line, 0, e.start) \o e.new_text \o Slice(line, e.end, Len(line))

\* apply the edits of set es (pairwise disjoint) that lie on line n,
\* rightmost first, so that earlier columns stay valid
RECURSIVE ApplyLine(_, _, _)
ApplyLine(line, n, es) ==
    LET mine == {e \in es : e.line = n}
    IN  IF mine = {} THEN line
        ELSE LET e == CHOOSE x \in mine : \A y \in mine : y.start <= x.start
             IN  ApplyLine(ApplyOne(line, e), n, es \ {e})

ApplyEdits(source, es) == [i \in DOMAIN source |-> ApplyLine(source[i], i - 1, es)]

\* what a client may make of a batch: a disjoint batch is applied whole; a
\* batch with overlapping edits is invalid, and the client either rejects
\* it or applies a largest conflict-free part of it
ApplyOutcomes(source, edits) ==
    LET all == Range(edits)
        Free(es) == \A x, y \in es : x # y => ~Overlap(x, y)
        Maximal(es) == Free(es) /\ \A z \in all \ es : ~Free(es \cup {z})
    IN  IF Free(all) /\ Cardinality(all) = Len(edits)
        THEN {ApplyEdits(source, all)}
        ELSE {source} \cup {ApplyEdits(source, es) : es \in {x \in SUBSET all : Maximal(x)}}

(***************************************************************************)
(* Diagnostics of did_change: the required, invalid and unsorted finders.  *)
(***************************************************************************)
PresentKeywords(tree) == {tree[i].kw[1].text : i \in {j \in DOMAIN tree : tree[j].kw # <<>>}}

RECURSIVE RequiredKeywordFinder(_, _)
RequiredKeywordFinder(required, tree) ==
    IF required = <<>> THEN <<>>
    ELSE (IF required[1] \in PresentKeywords(tree) THEN <<>>
          ELSE <<[kind |-> "required", text |-> required[1], line |-> 0, start |-> 0, end |-> 0]>>)
         \o RequiredKeywordFinder(Tail(required), tree)

RECURSIVE InvalidKeywordFinder(_, _)
InvalidKeywordFinder(valid, tree) ==
    IF tree = <<>> THEN <<>>
    ELSE (IF tree[1].kw # <<>> /\ tree[1].kw[1].text \notin valid
          THEN <<[kind |-> "invalid", text |-> tree[1].kw[1].text, line |-> tree[1].line,
                  start |-> tree[1].kw[1].start, end |-> tree[1].kw[1].end]>>
          ELSE <<>>)
         \o InvalidKeywordFinder(valid, Tail(tree))

\* one diagnostic per adjacent pair of known keywords out of canonical order
UnsortedKeywordFinder(keywords, tree) ==
    LET unis == SelectDecls(tree, Range(keywords))
        Diag(k) == IF Rank(keywords, unis[k].kw[1].text) > Rank(keywords, unis[k + 1].kw[1].text)
                   THEN <<[kind |-> "unsorted_keyword", text |-> unis[k + 1].kw[1].text,
                           line |-> unis[k + 1].line,
                           start |-> unis[k + 1].kw[1].start, end |-> unis[k + 1].kw[1].end]>>
                   ELSE <<>>
        RECURSIVE Collect(_)
        Collect(k) == IF k >= Len(unis) THEN <<>> ELSE Diag(k) \o Collect(k + 1)
    IN  Collect(1)

\* one diagnostic per adjacent pair of values out of lexicographic order
UnsortedCSVFinder(csvs, tree) ==
    LET unis == SelectDecls(tree, csvs)
        Diag(d, k) == IF ~LexLeq(d.vals[k].text, d.vals[k + 1].text)
                      THEN <<[kind |-> "unsorted_value", text |-> d.vals[k + 1].text,
                              line |-> d.line,
                              start |-> d.vals[k + 1].start, end |-> d.vals[k + 1].end]>>
                      ELSE <<>>
        RECURSIVE InList(_, _)
        InList(d, k) == IF k >= Len(d.vals) THEN <<>> ELSE Diag(d, k) \o InList(d, k + 1)
        RECURSIVE Collect(_)
        Collect(i) == IF i > Len(unis) THEN <<>> ELSE InList(unis[i], 1) \o Collect(i + 1)
    IN  Collect(1)

\* get_diagnostics(DIAGNOSTICS_FINDERS + [...], uri, tree): the finders'
\* findings concatenated in finder order; the generic finders of
\* DIAGNOSTICS_FINDERS find nothing in a well-formed tree
get_diagnostics(required, keywords, csvs, tree) ==
    RequiredKeywordFinder(required, tree)
    \o InvalidKeywordFinder(Range(keywords), tree)
    \o UnsortedKeywordFinder(keywords, tree)
    \o UnsortedCSVFinder(csvs, tree)

\* CSVFinder(csvs).get_document_links: one link per value of a value list
get_document_links(csvs, tree) ==
    LET unis == SelectDecls(tree, csvs)
        Links(d) == [i \in DOMAIN d.vals |->
                        [line |-> d.line, start |-> d.vals[i].start, end |-> d.vals[i].end,
                         target |-> d.vals[i].text]]
        RECURSIVE Collect(_)
        Collect(i) == IF i > Len(unis) THEN <<>> ELSE Links(unis[i]) \o Collect(i + 1)
    IN  Collect(1)

(***************************************************************************)
(* PositionFinder(position).find: the smallest node containing the         *)
(* position, as a sequence of zero or one nodes.                           *)
(***************************************************************************)
InToken(t, character) == t.start <= character /\ character <= t.end

PositionFinder_find(tree, line, character) ==
    IF line + 1 \notin DOMAIN tree THEN <<>>
    ELSE LET d    == tree[line + 1]
             toks == d.kw \o d.vals
             hits == {i \in DOMAIN toks : InToken(toks[i], character)}
         IN  IF character > Len(d.text) THEN <<>>
             ELSE IF hits # {} THEN <<toks[CHOOSE i \in hits : \A j \in hits : i <= j]>>
             ELSE <<[text |-> d.text, line |-> d.line, start |-> 0, end |-> Len(d.text)]>>

(***************************************************************************)
(* The schema loader: get_document(method) and get_keywords(document).     *)
(***************************************************************************)
DEPENDS     == <<"D","E","P","E","N","D","S">>
DEPENDS_PKG == <<"D","E","P","E","N","D","S","_","P","K","G">>
PROVIDES    == <<"P","R","O","V","I","D","E","S">>
ESSENTIAL   == <<"E","S","S","E","N","T","I","A","L">>
BLANK       == <<"B","L","A","N","K">>
SHARED      == <<"S","H","A","R","E","D">>
TagSh       == <<"s","h">>

Entry(n, d, t) == [name |-> n, doc |-> d, tag |-> t]

\* the schema of the completion example
SchemaExample ==
    <<Entry(DEPENDS, "dependencies", BUILD_SH),
      Entry(DEPENDS_PKG, "package dependencies", BUILD_SH),
      Entry(PROVIDES, "provided names", BUILD_SH)>>

\* a schema with an entry of another filetype, an entry whose documentation
\* is empty and an entry whose tag is not a filetype name
SchemaMixed ==
    <<Entry(DEPENDS, "dependencies", BUILD_SH),
      Entry(PROVIDES, "provided names", BUILD_SH),
      Entry(ESSENTIAL, "essential flag", SUBPACKAGE_SH),
      Entry(BLANK, "", BUILD_SH),
      Entry(SHARED, "shared by shell recipes", TagSh)>>

Methods == {"builtin", "system"}

RECURSIVE NamesTagged(_, _)
NamesTagged(schema, filetype) ==
    IF schema = <<>> THEN <<>>
    ELSE (IF schema[1].tag = filetype THEN <<schema[1].name>> ELSE <<>>)
         \o NamesTagged(Tail(schema), filetype)

get_keywords(schema) == [ft \in FILETYPES |-> NamesTagged(schema, ft)]

get_document(method) ==
    LET schema == IF method = "builtin" THEN SchemaMixed ELSE SchemaExample
    IN  [document |-> schema,
         required |-> [ft \in FILETYPES |-> IF ft = BUILD_SH THEN <<DEPENDS>> ELSE <<>>],
         csvs     |-> [ft \in FILETYPES |-> IF ft \in {BUILD_SH, SUBPACKAGE_SH}
                                            THEN {DEPENDS, PROVIDES} ELSE {}]]

\* dict.get(text, ["", ""]) on the schema
RECURSIVE document_get(_, _)
document_get(schema, text) ==
    IF schema = <<>> THEN [doc |-> "", tag |-> <<>>]
    ELSE IF schema[1].name = text THEN [doc |-> schema[1].doc, tag |-> schema[1].tag]
    ELSE document_get(Tail(schema), text)

\* lines 160-170 of hover: from the resolved node to the answer
hover_lookup(schema, filetype, uni) ==
    LET e == document_get(schema, uni.text)
    IN  IF e.doc = "" \/ e.tag # filetype THEN <<>>
        ELSE <<[contents |-> e.doc, line |-> uni.line, start |-> uni.start, end |-> uni.end]>>

(***************************************************************************)
(* State.                                                                  *)
(***************************************************************************)
VARIABLES
    document,   \* self.document: the schema, entries in dict order
    keywords,   \* self.keywords: filetype -> canonical keyword order
    required,   \* self.required: filetype -> required keywords
    csvs,       \* self.csvs: filetype -> keywords holding value lists
    trees,      \* self.trees: uri -> tree
    workspace,  \* self.workspace: uri -> source of the open documents
    published,  \* uri -> the diagnostics last published for it
    last,       \* the last handler call and how it ended
    fsource, fstage, fedits,   \* format on one document, applied and rerun
    wschema, wft, wline, wstage, wcol, wword, witems  \* one completion

svars == <<document, keywords, required, csvs, trees, workspace, published, last>>
fvars == <<fsource, fstage, fedits>>
wvars == <<wschema, wft, wline, wstage, wcol, wword, witems>>
vars  == <<svars, fvars, wvars>>

(***************************************************************************)
(* Inputs.                                                                 *)
(***************************************************************************)
Seqs(S, n) == UNION {[1..k -> S] : k \in 0..n}

U_BUILD  == <<"/","p","/","b","u","i","l","d",".","s","h">>
U_SUB    == <<"/","p","/","x",".","s","u","b","p","a","c","k","a","g","e",".","s","h">>
U_NOTES  == <<"/","p",".","i","n","s","t","a","l","l","/","n","o","t","e","s">>
URIs == {U_BUILD, U_SUB, U_NOTES}

Line(kw, vals) == kw \o <<"=">> \o JoinSpace(vals)
Va == <<"a">>
Vb == <<"b">>
Vab == <<"a","b">>

SrcNested == <<Line(PROVIDES, <<Va>>), Line(DEPENDS, <<Vb, Va>>)>>
SrcOther  == <<Line(ESSENTIAL, <<Va>>), Line(BLANK, <<Va>>)>>
Sources == {SrcNested, SrcOther}

\* the file behind a document the client never opened
NoFile == [exists |-> FALSE, source |-> <<>>]
DiskStates == {NoFile} \cup {[exists |-> TRUE, source |-> s] : s \in Sources}

Outcome(op, uri, line, character, raised, result) ==
    [op |-> op, uri |-> uri, line |-> line, character |-> character,
     raised |-> raised, result |-> result]

Put(map, key, value) ==
    [k \in DOMAIN map \cup {key} |-> IF k = key THEN value ELSE map[k]]

FInit0 == fsource = <<>> /\ fstage = "off" /\ fedits = <<>>
WInit0 == /\ wschema = <<>> /\ wft = <<>> /\ wline = <<>> /\ wstage = "off"
          /\ wcol = 0 /\ wword = <<>> /\ witems = <<>>

\* TermuxLanguageServer.__init__
SInit ==
    /\ document = <<>>
    /\ keywords = <<>>
    /\ required = <<>>
    /\ csvs = <<>>
    /\ trees = <<>>
    /\ workspace = <<>>
    /\ published = <<>>
    /\ last = Outcome("init", <<>>, 0, 0, "none", <<>>)

Init == SInit /\ FInit0 /\ WInit0

(***************************************************************************)
(* Handlers.                                                               *)
(***************************************************************************)
initialize(method) ==
    /\ document' = get_document(method).document
    /\ required' = get_document(method).required
    /\ csvs' = get_document(method).csvs
    /\ keywords' = get_keywords(get_document(method).document)
    /\ last' = Outcome("initialize", <<>>, 0, 0, "none", <<>>)
    /\ UNCHANGED <<trees, workspace, published, fvars, wvars>>

\* did_change without the filetype guard
did_change_unguarded(uri, source) ==
    LET filetype == get_filetype(uri)
        tree     == parse(source)
        loaded   == /\ filetype \in DOMAIN required
                    /\ filetype \in DOMAIN keywords
                    /\ filetype \in DOMAIN csvs
        diagnostics == get_diagnostics(required[filetype], keywords[filetype],
                                       csvs[filetype], tree)
    IN  /\ workspace' = Put(workspace, uri, source)
        /\ trees' = Put(trees, uri, tree)
        /\ IF ~loaded
           THEN /\ last' = Outcome("did_change", uri, 0, 0, "KeyError", <<>>)
                /\ UNCHANGED published
           ELSE /\ published' = Put(published, uri, diagnostics)
                /\ last' = Outcome("did_change", uri, 0, 0, "none", diagnostics)
        /\ UNCHANGED <<document, keywords, required, csvs, fvars, wvars>>

\* did_open / did_change; the workspace holds the new text before the
\* handler runs
did_change(uri, source) ==
    LET filetype == get_filetype(uri)
        tree     == parse(source)
        loaded   == /\ filetype \in DOMAIN required
                    /\ filetype \in DOMAIN keywords
                    /\ filetype \in DOMAIN csvs
        diagnostics == get_diagnostics(required[filetype], keywords[filetype],
                                       csvs[filetype], tree)
    IN  /\ workspace' = Put(workspace, uri, source)
        /\ IF filetype = NoFiletype
           THEN /\ last' = Outcome("did_change", uri, 0, 0, "none", <<>>)
                /\ UNCHANGED <<trees, published>>
           ELSE /\ trees' = Put(trees, uri, tree)
                /\ IF ~loaded
                   THEN /\ last' = Outcome("did_change", uri, 0, 0, "KeyError", <<>>)
                        /\ UNCHANGED published
                   ELSE /\ published' = Put(published, uri, diagnostics)
                        /\ last' = Outcome("did_change", uri, 0, 0, "none", diagnostics)
        /\ UNCHANGED <<document, keywords, required, csvs, fvars, wvars>>

format(uri) ==
    LET filetype == get_filetype(uri)
    IN  /\ last' =
             IF filetype = NoFiletype
             THEN Outcome("format", uri, 0, 0, "none", <<>>)
             ELSE IF filetype \notin DOMAIN keywords \/ filetype \notin DOMAIN csvs
                     \/ uri \notin DOMAIN trees
             THEN Outcome("format", uri, 0, 0, "KeyError", <<>>)
             ELSE Outcome("format", uri, 0, 0, "none",
                          format_edits(keywords[filetype], csvs[filetype], trees[uri]))
        /\ UNCHANGED <<document, keywords, required, csvs, trees, workspace, published, fvars, wvars>>

document_link(uri) ==
    LET filetype == get_filetype(uri)
    IN  /\ last' =
             IF filetype = NoFiletype
             THEN Outcome("document_link", uri, 0, 0, "none", <<>>)
             ELSE IF filetype \notin DOMAIN csvs \/ uri \notin DOMAIN trees
             THEN Outcome("document_link", uri, 0, 0, "KeyError", <<>>)
             ELSE Outcome("document_link", uri, 0, 0, "none",
                          get_document_links(csvs[filetype], trees[uri]))
        /\ UNCHANGED <<document, keywords, required, csvs, trees, workspace, published, fvars, wvars>>

hover(uri, line, character) ==
    LET filetype == get_filetype(uri)
        uni      == PositionFinder_find(trees[uri], line, character)
    IN  /\ last' =
             IF filetype = NoFiletype
             THEN Outcome("hover", uri, line, character, "none", <<>>)
             ELSE IF uri \notin DOMAIN trees
             THEN Outcome("hover", uri, line, character, "KeyError", <<>>)
             ELSE IF uni = <<>>
             THEN Outcome("hover", uri, line, character, "none", <<>>)
             ELSE Outcome("hover", uri, line, character, "none",
                          hover_lookup(document, filetype, uni[1]))
        /\ UNCHANGED <<document, keywords, required, csvs, trees, workspace, published, fvars, wvars>>

\* an open document is served from the workspace, any other is read from
\* the disk when its source is asked for
DiskFor(uri) == IF uri \in DOMAIN workspace THEN {NoFile} ELSE DiskStates

\* completions; `disk` is the file read when the document was never opened
completions(uri, line, character) ==
    \E disk \in DiskFor(uri) :
    LET filetype == get_filetype(uri)
        opened   == uri \in DOMAIN workspace
        lines    == IF opened THEN workspace[uri] ELSE disk.source
        word     == cursor_word(lines[line + 1], line, character, FALSE)
    IN  /\ last' =
             IF filetype = NoFiletype
             THEN Outcome("completion", uri, line, character, "none", <<>>)
             ELSE IF ~opened /\ ~disk.exists
             THEN Outcome("completion", uri, line, character, "OSError", <<>>)
             ELSE IF line + 1 \notin DOMAIN lines
             THEN Outcome("completion", uri, line, character, "IndexError", <<>>)
             ELSE Outcome("completion", uri, line, character, "none",
                          completion_items(document, word.text, filetype))
        /\ UNCHANGED <<document, keywords, required, csvs, trees, workspace, published, fvars, wvars>>

Next ==
    \/ \E method \in Methods : initialize(method)
    \/ \E uri \in URIs, source \in Sources : did_change(uri, source)
    \/ \E uri \in URIs : format(uri)
    \/ \E uri \in URIs : document_link(uri)
    \/ \E uri \in URIs, line \in 0..MaxPosLine, character \in 0..MaxPosCol :
           hover(uri, line, character)
    \/ \E uri \in URIs, line \in 0..MaxPosLine, character \in 0..MaxPosCol :
           completions(uri, line, character)

Spec == Init /\ [][Next]_vars

(***************************************************************************)
(* format as a function of the tree: every document within the bounds is   *)
(* formatted, the client applies the edits, and format runs again.         *)
(***************************************************************************)
FmtKeywords == get_keywords(get_document("builtin").document)[BUILD_SH]
FmtCsvs     == get_document("builtin").csvs[BUILD_SH]

Values == {Va, Vb, Vab}
DeclLines == {Line(kw, vals) : kw \in {DEPENDS, PROVIDES}, vals \in Seqs(Values, MaxVals)}
Documents == Seqs(DeclLines, MaxDecls)

FInit ==
    /\ fsource \in Documents
    /\ fstage = "opened"
    /\ fedits = <<>>

FFormat ==
    /\ fstage = "opened"
    /\ fedits' = format_edits(FmtKeywords, FmtCsvs, parse(fsource))
    /\ fstage' = "formatted"
    /\ UNCHANGED <<fsource, svars, wvars>>

FApply ==
    /\ fstage = "formatted"
    /\ fsource' \in ApplyOutcomes(fsource, fedits)
    /\ fstage' = "applied"
    /\ UNCHANGED <<fedits, svars, wvars>>

FReformat ==
    /\ fstage = "applied"
    /\ fedits' = format_edits(FmtKeywords, FmtCsvs, parse(fsource))
    /\ fstage' = "reformatted"
    /\ UNCHANGED <<fsource, svars, wvars>>

FNext == FFormat \/ FApply \/ FReformat

InitFormat == SInit /\ FInit /\ WInit0

SpecFormat == InitFormat /\ [][FNext]_vars

(***************************************************************************)
(* completions as a function of schema, filetype, line and column.         *)
(***************************************************************************)
LineChars == {"D", "E", "P", " "}
LineDEP == <<"D","E","P">>

WInit ==
    /\ wschema \in {SchemaExample, SchemaMixed}
    /\ wft \in {BUILD_SH, SUBPACKAGE_SH}
    /\ wline \in Seqs(LineChars, MaxLineLen)
    /\ wstage = "typed"
    /\ wcol = 0
    /\ wword = <<>>
    /\ witems = <<>>

WComplete(character) ==
    /\ wstage = "typed"
    /\ wcol' = character
    /\ wword' = <<cursor_word(wline, 0, character, FALSE)>>
    /\ witems' = completion_items(wschema, cursor_word(wline, 0, character, FALSE).text, wft)
    /\ wstage' = "completed"
    /\ UNCHANGED <<wschema, wft, wline, svars, fvars>>

WNext == \E character \in 0..(MaxLineLen + 1) : WComplete(character)

InitWord == SInit /\ FInit0 /\ WInit

SpecWord == InitWord /\ [][WNext]_vars

(***************************************************************************)
(* Properties.                                                             *)
(***************************************************************************)
Recognized(uri) == get_filetype(uri) # NoFiletype
RuleSetMissing(filetype) ==
    \/ filetype \notin DOMAIN required
    \/ filetype \notin DOMAIN keywords
    \/ filetype \notin DOMAIN csvs
Labels(items) == {items[i].label : i \in DOMAIN items}

IdempotentOnDisjointBatches ==
    (fstage = "applied" /\ PairwiseDisjoint(fedits))
        => format_edits(FmtKeywords, FmtCsvs, parse(fsource)) = <<>>

\* C3: when the rule set of a recognized filetype is missing from the
\* required/keywords/csvs maps, did_open/did_change, format and
\* document-link yield an empty result and do not raise.
C3_FailsClosed ==
    (/\ last.op \in {"did_change", "format", "document_link"}
     /\ Recognized(last.uri)
     /\ RuleSetMissing(get_filetype(last.uri)))
    => (last.raised = "none" /\ last.result = <<>>)

\* C4: hover, format or document-link on a recognized document with no
\* stored tree, and a point query whose line lies outside the document,
\* end in the empty outcome and never in an exception.
C4_NoAnswerNotException ==
    (/\ Recognized(last.uri)
     /\ \/ (last.op \in {"hover", "format", "document_link"} /\ last.uri \notin DOMAIN trees)
        \/ (/\ last.op \in {"hover", "completion"}
            /\ last.uri \in DOMAIN workspace
            /\ last.line + 1 \notin DOMAIN workspace[last.uri]))
    => (last.raised = "none" /\ last.result = <<>>)

\* C5: hover on a token whose text is a schema entry of the active filetype
\* returns that entry's documentation with the token's range, for every
\* schema entry; on an entry of another filetype, or on a text absent from
\* the schema, it returns nothing.
HoverToken == PositionFinder_find(trees[last.uri], last.line, last.character)
HoverAnswered ==
    /\ last.op = "hover"
    /\ last.raised = "none"
    /\ Recognized(last.uri)
    /\ last.uri \in DOMAIN trees
    /\ HoverToken # <<>>
C5_HoverMatchesSchema ==
    HoverAnswered =>
        LET uni == HoverToken[1]
            own == {i \in DOMAIN document :
                       /\ document[i].name = uni.text
                       /\ document[i].tag = get_filetype(last.uri)}
        IN  IF own # {}
            THEN \E i \in own :
                    last.result = <<[contents |-> document[i].doc, line |-> uni.line,
                                     start |-> uni.start, end |-> uni.end]>>
            ELSE last.result = <<>>

\* where C5 holds: entries whose documentation is not empty
HoverMatchesSchemaWhenDocumented ==
    (/\ HoverAnswered
     /\ \A i \in DOMAIN document :
            document[i].name = HoverToken[1].text => document[i].doc # "")
    => C5_HoverMatchesSchema

\* C6: completion returns exactly the schema entries whose name starts with
\* the prefix and whose filetype tag is the document's filetype, in schema
\* order.
RECURSIVE EntriesOfFiletype(_, _, _)
EntriesOfFiletype(schema, token, filetype) ==
    IF schema = <<>> THEN <<>>
    ELSE (IF StartsWith(schema[1].name, token) /\ schema[1].tag = filetype
          THEN <<schema[1].name>> ELSE <<>>)
         \o EntriesOfFiletype(Tail(schema), token, filetype)
C6_ExactlyTheFiletypeEntries ==
    wstage = "completed" =>
        [i \in DOMAIN witems |-> witems[i].label]
            = EntriesOfFiletype(wschema, wword[1].text, wft)

\* where C6 holds: schemas whose tags are all filetype names
ExactWhenTagsAreFiletypes ==
    (\A i \in DOMAIN wschema : wschema[i].tag \in FILETYPES)
        => C6_ExactlyTheFiletypeEntries

\* C7 as stated: with "DEP" typed over the schema {DEPENDS, DEPENDS_PKG,
\* PROVIDES}, the candidates are {DEPENDS, DEPENDS_PKG} wherever the cursor
\* sits inside "DEP".
DepExample ==
    /\ wstage = "completed"
    /\ wschema = SchemaExample
    /\ wft = BUILD_SH
    /\ wline = LineDEP
C7_SameAtEveryColumn ==
    (DepExample /\ wcol \in 0..Len(LineDEP)) => Labels(witems) = {DEPENDS, DEPENDS_PKG}

\* C7 amended: the candidates are those of the text between the start of
\* the word and the cursor, so they depend on the column: over that schema
\* "DEP" gives {DEPENDS, DEPENDS_PKG} at columns 1..3 and all three entries
\* at column 0, and moving the cursor left within a word never removes a
\* candidate.
C7_CandidatesOfTextBeforeCursor ==
    /\ (DepExample /\ wcol \in 1..Len(LineDEP)) => Labels(witems) = {DEPENDS, DEPENDS_PKG}
    /\ (DepExample /\ wcol = 0) => Labels(witems) = {DEPENDS, DEPENDS_PKG, PROVIDES}
    /\ wstage = "completed" =>
          \A c \in wword[1].start..wword[1].end :
              Labels(witems) \subseteq
                  Labels(completion_items(wschema, cursor_word(wline, 0, c, FALSE).text, wft))
C7_Witness == DepExample /\ wcol = 0 /\ PROVIDES \in Labels(witems)

\* C9: the completion prefix is the text from the start of the unique \w+
\* match m with m.start <= column <= m.end up to the column, with no
\* character at or after the cursor; with no such match it is the empty
\* string with the empty range at column 0, and completion returns every
\* schema entry of the filetype.
IsMatch(line, a, b) ==
    /\ a < b
    /\ \A k \in (a + 1)..b : line[k] \in WordChars
    /\ (a = 0 \/ line[a] \notin WordChars)
    /\ (b = Len(line) \/ line[b + 1] \notin WordChars)
TouchingMatches(line, character) ==
    {m \in (0..Len(line)) \X (0..Len(line)) :
        IsMatch(line, m[1], m[2]) /\ m[1] <= character /\ character <= m[2]}
C9_PrefixUpToCursor ==
    wstage = "completed" =>
        LET ms == TouchingMatches(wline, wcol)
            w  == wword[1]
        IN  /\ Cardinality(ms) <= 1
            /\ \A m \in ms :
                  /\ w.start = m[1]
                  /\ w.end = wcol
                  /\ Len(w.text) = wcol - m[1]
                  /\ \A k \in 1..Len(w.text) : w.text[k] = wline[m[1] + k]
            /\ ms = {} =>
                  /\ w = [text |-> <<>>, line |-> 0, start |-> 0, end |-> 0]
                  /\ \A i \in DOMAIN wschema :
                        wschema[i].tag = wft => wschema[i].name \in Labels(witems)
C9_Witness ==
    /\ wstage = "completed"
    /\ \E m \in TouchingMatches(wline, wcol) : m[1] < wcol /\ wcol < m[2]
    /\ Len(wword[1].text) = 2

\* C8: every did_open/did_change of a recognized document replaces the
\* cached tree by the parse of the new source and publishes the diagnostics
\* of that tree, so the cached tree and the last published diagnostics of a
\* URI are always those of its most recent source.
DiagnosticsOf(uri) ==
    get_diagnostics(required[get_filetype(uri)], keywords[get_filetype(uri)],
                    csvs[get_filetype(uri)], parse(workspace[uri]))
C8_TreeAndDiagnosticsCurrent ==
    (last.op = "did_change" /\ Recognized(last.uri)) =>
        /\ last.uri \in DOMAIN trees
        /\ trees[last.uri] = parse(workspace[last.uri])
        /\ last.uri \in DOMAIN published
        /\ ~RuleSetMissing(get_filetype(last.uri))
        /\ published[last.uri] = DiagnosticsOf(last.uri)

\* the part of C8 that the handlers keep: the cached tree of every open
\* recognized document is the parse of its current source, and a
\* notification handled with the rule sets loaded publishes the diagnostics
\* of the new tree
TreeCacheCurrent ==
    \A uri \in DOMAIN workspace :
        Recognized(uri) => (uri \in DOMAIN trees /\ trees[uri] = parse(workspace[uri]))
CurrentWhenRulesLoaded ==
    ~RuleSetMissing(get_filetype(last.uri)) => C8_TreeAndDiagnosticsCurrent

\* C10: for a URI that get_filetype does not recognize, every handler
\* returns the empty outcome and leaves document, keywords, required, csvs
\* and trees (and the published diagnostics) unchanged.
C10_UnrecognizedIsNoOp ==
    [][(/\ last'.op \in {"did_change", "format", "document_link", "hover", "completion"}
        /\ ~Recognized(last'.uri))
       => (/\ last'.raised = "none"
           /\ last'.result = <<>>
           /\ UNCHANGED <<document, keywords, required, csvs, trees, published>>)]_vars
C10_Witness ==
    /\ last.op = "did_change"
    /\ ~Recognized(last.uri)
    /\ document # <<>>
    /\ trees # <<>>
    /\ last.uri \in DOMAIN workspace

====
